---- MODULE Spec2Model ----
(***************************************************************************)
(* JarvisMindV2 (orchestrator.py): one agent process per mind, each        *)
(* running three asyncio activities (worker loop, listener loop, standup   *)
(* scheduler) against a shared Redis pub/sub bus and a shared Mongo        *)
(* database.  asyncio is cooperative: an action of this model is the code  *)
(* that runs between two real suspension points (awaits that reach I/O or  *)
(* a sleep).                                                               *)
(***************************************************************************)
EXTENDS Integers, Sequences, FiniteSets, TLC

\* ------------------------------------------------------------------ bounds
MaxCycles == 2        \* work cycles started per mind
MaxDays == 1          \* standup periods per mind
MaxInsights == 4      \* entries of the insight log
MaxPeerMsgs == 2      \* messages injected by processes outside the model

\* --------------------------------------------------------------- constants
Minds == {"A", "B"}
None == "None"

\* connect(): the five subscribed channels
Channels == {"society_channel", "daily_standup", "code_review",
             "design_review", "architecture_review"}

\* work_on_mission(): the phases with a branch, and one without
Phases == {"analysis", "core_systems", "user_experience", "polish"}
AllPhases == Phases \cup {"unmapped"}

\* The order in which mission control advances the phase
PhaseRank(p) ==
  CASE p = "analysis" -> 1
    [] p = "core_systems" -> 2
    [] p = "user_experience" -> 3
    [] p = "polish" -> 4
    [] OTHER -> 5

\* Trait values are hundredths (0.95 -> 95); sleeps are centiseconds.
Scale == 100
BaseDelay == 30
RecoverySleep == 5

Traits == {"curiosity", "caution", "creativity", "logic", "empathy",
           "productivity", "perfectionism"}

BaseProfile ==
  [t \in Traits |->
     CASE t = "curiosity" -> 70
       [] t = "caution" -> 50
       [] t = "creativity" -> 60
       [] t = "logic" -> 70
       [] t = "empathy" -> 60
       [] t = "productivity" -> 70
       [] t = "perfectionism" -> 60]

Specializations ==
  [philosopher |-> ("curiosity" :> 95 @@ "logic" :> 90 @@ "empathy" :> 85),
   scientist   |-> ("logic" :> 95 @@ "caution" :> 80 @@ "productivity" :> 85),
   engineer    |-> ("logic" :> 85 @@ "creativity" :> 80 @@ "productivity" :> 95),
   artist      |-> ("creativity" :> 95 @@ "empathy" :> 90 @@ "perfectionism" :> 90),
   historian   |-> ("caution" :> 80 @@ "logic" :> 75 @@ "curiosity" :> 85),
   strategist  |-> ("logic" :> 90 @@ "caution" :> 85 @@ "productivity" :> 80),
   explorer    |-> ("curiosity" :> 95 @@ "caution" :> 30 @@ "creativity" :> 90),
   optimizer   |-> ("logic" :> 95 @@ "creativity" :> 70 @@ "productivity" :> 90),
   synthesizer |-> ("creativity" :> 90 @@ "empathy" :> 85 @@ "logic" :> 80),
   guardian    |-> ("caution" :> 95 @@ "empathy" :> 80 @@ "perfectionism" :> 85)]

InitializePersonality_BaseOnly(tag) == BaseProfile

\* _initialize_personality(): base.update(specializations[tag]) for a known tag
InitializePersonality(tag) ==
  IF tag \in DOMAIN Specializations
  THEN [t \in Traits |-> IF t \in DOMAIN Specializations[tag]
                         THEN Specializations[tag][t]
                         ELSE BaseProfile[t]]
  ELSE BaseProfile

\* os.getenv('SPECIALIZATION', 'generalist'): a tag of the table, or the
\* default, which the table does not hold
Tags == DOMAIN Specializations \cup {"generalist"}

\* The SPECIALIZATION of the two processes of the deployment
Deployment == [m \in Minds |-> IF m = "A" THEN "engineer" ELSE "generalist"]

WorkDelay_Rising(p) == BaseDelay * (Scale + p)

\* work_delay = 30.0 * (2.0 - productivity), in centiseconds
WorkDelay(p) == BaseDelay * (2 * Scale - p)

\* ---------------------------------------------------------------- state
VARIABLES
  specialization,        \* self.specialization
  personality,           \* self.personality
  running,               \* self.running
  current_phase,         \* self.current_phase
  days_elapsed,          \* self.days_elapsed
  tasks_completed,       \* self.tasks_completed
  insights,              \* self.insights
  relationships,         \* self.relationships: a function on the known peers
  conversation_history,  \* self.conversation_history
  generation,            \* self.generation
  wpc, spc, lpc,         \* position of worker / standup scheduler / listener
  work,                  \* the worker's local `work`
  report,                \* daily_standup's local `report`
  sleep_for,             \* argument of the asyncio.sleep the worker is in
  clock,                 \* datetime.now() of work records: records created so far
  inbox,                 \* per subscriber: messages buffered by self.pubsub
  published,             \* header of every message a mind published, in order
  development_work,      \* db.development_work
  project_analysis,      \* db.project_analysis
  standup_records,       \* the store's standup collection
  peer_sent,             \* messages injected so far by outside processes
  message_errors         \* per listener: messages its except branch logged

configVars == <<specialization, personality>>
agentVars == <<configVars, running, current_phase, days_elapsed,
               tasks_completed, insights, relationships, conversation_history,
               generation>>
workerVars == <<wpc, work, sleep_for, clock>>
standupVars == <<spc, report>>
busVars == <<inbox, published>>
storeVars == <<development_work, project_analysis, standup_records>>
vars == <<agentVars, workerVars, standupVars, lpc, busVars, storeVars,
         peer_sent, message_errors>>

NoWork == [timestamp |-> 0, mind |-> None, phase |-> None, type |-> None,
           output |-> None]
NoReport == [mind |-> None, completed |-> 0, status |-> None, insights |-> <<>>]

\* __init__() of every process, tags[m] being the SPECIALIZATION of m
Construct(tags) ==
  /\ specialization = tags
  /\ personality = [m \in Minds |-> InitializePersonality(tags[m])]
  /\ running = [m \in Minds |-> TRUE]
  /\ current_phase = [m \in Minds |-> "analysis"]
  /\ days_elapsed = [m \in Minds |-> 0]
  /\ tasks_completed = [m \in Minds |-> <<>>]
  /\ insights = [m \in Minds |-> <<>>]
  /\ relationships = [m \in Minds |-> <<>>]
  /\ conversation_history = [m \in Minds |-> <<>>]
  /\ generation = [m \in Minds |-> 0]
  /\ wpc = [m \in Minds |-> "start"]
  /\ spc = [m \in Minds |-> "notstarted"]
  /\ lpc = [m \in Minds |-> "notstarted"]
  /\ work = [m \in Minds |-> NoWork]
  /\ report = [m \in Minds |-> NoReport]
  /\ sleep_for = [m \in Minds |-> 0]
  /\ clock = [m \in Minds |-> 0]
  /\ inbox = [m \in Minds |-> <<>>]
  /\ published = <<>>
  /\ development_work = <<>>
  /\ project_analysis = <<>>
  /\ standup_records = <<>>
  /\ peer_sent = 0
  /\ message_errors = [m \in Minds |-> 0]

\* The deployment: A is the engineer, B runs with the default tag
Init == Construct(Deployment)

\* ------------------------------------------------------------------ bus
\* A message buffered by a subscriber's pubsub connection.  `type` is the
\* Redis-level type tested at line 498; `decodable` is whether json.loads
\* of the data yields a dict; the other fields are the decoded dict.
Msg(ch, m, k, d, r, ts) ==
  [channel |-> ch, type |-> "message", decodable |-> TRUE, mind |-> m,
   kind |-> k, details |-> d, report |-> r, timestamp |-> ts]

\* The confirmation the server sends for pubsub.subscribe(...)
SubscribeNotice ==
  [channel |-> "society_channel", type |-> "subscribe", decodable |-> FALSE,
   mind |-> None, kind |-> None, details |-> None, report |-> NoReport,
   timestamp |-> 0]

Header(msg) ==
  [channel |-> msg.channel, mind |-> msg.mind, kind |-> msg.kind,
   timestamp |-> msg.timestamp]

\* A connection receives from subscribe() until it is closed.
Subscribed(s) ==
  /\ wpc[s] \notin {"start", "exited"}
  /\ lpc[s] \in {"notstarted", "listening"}

\* The bus hands a message to every subscriber
Deliver(msg) ==
  inbox' = [s \in Minds |-> IF Subscribed(s) THEN Append(inbox[s], msg)
                             ELSE inbox[s]]

\* redis_client.publish(channel, data)
Publish(msg) ==
  /\ Deliver(msg)
  /\ published' = Append(published, Header(msg))

\* --------------------------------------------------------------- worker
WorkerGoto(m, pc, w, slp) ==
  /\ wpc' = [wpc EXCEPT ![m] = pc]
  /\ work' = [work EXCEPT ![m] = w]
  /\ sleep_for' = [sleep_for EXCEPT ![m] = slp]

\* What the scan of the project root can meet
FsOutcomes == {"unmounted", "scanned", "scan_error"}

\* work_on_mission() and the collaborator it calls, up to the first await
\* that suspends: the record built so far
BeginWork(m, fs) ==
  LET ph == current_phase[m]
      w == [timestamp |-> clock[m] + 1, mind |-> m, phase |-> ph,
            type |-> None, output |-> None]
  IN CASE ph = "analysis" ->
            [w EXCEPT !.type = "analysis",
                      !.output = CASE fs = "unmounted" -> "findings_unmounted"
                                   [] fs = "scanned" -> "findings"
                                   [] OTHER -> "findings_error"]
       [] ph = "core_systems" -> [w EXCEPT !.type = "development"]
       [] ph = "user_experience" ->
            [w EXCEPT !.type = "design", !.output = "draft"]
       [] ph = "polish" ->
            [w EXCEPT !.type = "optimization", !.output = "testing"]
       [] OTHER -> w

\* ... and the await it suspends at
BeginPc(m, fs) ==
  CASE current_phase[m] = "analysis" /\ fs # "unmounted" -> "ainsert"
    [] current_phase[m] = "core_systems" -> "infer"
    [] OTHER -> "insert"

WorkerLoopTest_Forever(m) == TRUE

\* `while self.running:` of autonomous_loop
WorkerLoopTest(m) == running[m]

\* The loop test followed by the start of the loop body
WorkerEnter(m, fs) ==
  IF WorkerLoopTest(m)
  THEN /\ clock[m] < MaxCycles
       /\ WorkerGoto(m, BeginPc(m, fs), BeginWork(m, fs), 0)
       /\ clock' = [clock EXCEPT ![m] = @ + 1]
  ELSE /\ WorkerGoto(m, "done", NoWork, 0)
       /\ UNCHANGED clock

ExceptPc_Uncaught == "crashed"

ExceptPc_Sleep == "sleep"

\* `except Exception` of the loop body: log, then asyncio.sleep(5)
ExceptPc == "recover"

OnWorkerError(m) ==
  WorkerGoto(m, ExceptPc, NoWork, RecoverySleep * Scale)

\* self.tasks_completed.append(work), then the pacing sleep
AppendAndSleep(m) ==
  /\ tasks_completed' = [tasks_completed EXCEPT ![m] = Append(@, work[m])]
  /\ WorkerGoto(m, "sleep", NoWork, WorkDelay(personality[m]["productivity"]))

\* connect(): clients created, pubsub subscribed; run() then sleeps 0..3 s
Connect(m) ==
  /\ wpc[m] = "start"
  /\ WorkerGoto(m, "connected", work[m], 0)
  /\ inbox' = [inbox EXCEPT ![m] = Append(@, SubscribeNotice)]
  /\ UNCHANGED <<agentVars, clock, standupVars, lpc, published, storeVars,
                 peer_sent,
                 message_errors>>

StandupLoopTest_Forever(m) == TRUE

\* `while self.running:` of standup_scheduler
StandupLoopTest(m) == running[m]

\* autonomous_loop() up to its first suspension: both tasks are created and
\* the loop is entered; the created tasks run their first step right after.
StartLoop(m, fs) ==
  /\ wpc[m] = "connected"
  /\ WorkerEnter(m, fs)
  /\ lpc' = [lpc EXCEPT ![m] = "listening"]
  /\ spc' = [spc EXCEPT ![m] = IF StandupLoopTest(m) THEN "sleeping"
                                ELSE "done"]
  /\ UNCHANGED <<agentVars, report, busVars, storeVars, peer_sent,
                 message_errors>>

\* analyze_project(): db.project_analysis.insert_one(analysis) returns or
\* raises (the raise leaves work_on_mission and reaches the loop's except)
WorkerAnalysisStored(m, ok) ==
  /\ wpc[m] = "ainsert"
  /\ IF ok
     THEN /\ project_analysis' =
               Append(project_analysis,
                      [timestamp |-> work[m].timestamp, analyst |-> m,
                       findings |-> work[m].output])
          /\ WorkerGoto(m, "insert", work[m], 0)
     ELSE /\ OnWorkerError(m)
          /\ UNCHANGED project_analysis
  /\ UNCHANGED <<agentVars, clock, standupVars, lpc, busVars, development_work,
                 standup_records, peer_sent,
                 message_errors>>

\* develop_core_system(): the POST to the inference service returns 200,
\* returns another status, or raises (timeout); both failures give
\* {'status': 'failed'}
InferenceOutcomes == {"ok200", "non200", "timeout"}

DevelopCoreSystem(r) == IF r = "ok200" THEN "proposed" ELSE "failed"

WorkerInferenceReturns(m, r) ==
  /\ wpc[m] = "infer"
  /\ WorkerGoto(m, "insert", [work[m] EXCEPT !.output = DevelopCoreSystem(r)], 0)
  /\ UNCHANGED <<agentVars, clock, standupVars, lpc, busVars, storeVars,
                 peer_sent,
                 message_errors>>

\* The work_update message of lines 467-473
WorkUpdate(m) ==
  Msg("society_channel", m, "work_update", work[m].output, NoReport,
      work[m].timestamp)

Truthy_Always(output) == TRUE

\* `if work['output']:`
Truthy(output) == output # None

\* work_on_mission(): db.development_work.insert_one(work) returns or raises;
\* on return the loop goes on to `if work['output']`
WorkerStored(m, ok) ==
  /\ wpc[m] = "insert"
  /\ IF ok
     THEN /\ development_work' = Append(development_work, work[m])
          /\ IF Truthy(work[m].output)
             THEN /\ WorkerGoto(m, "publish", work[m], 0)
                  /\ UNCHANGED tasks_completed
             ELSE AppendAndSleep(m)
     ELSE /\ OnWorkerError(m)
          /\ UNCHANGED <<development_work, tasks_completed>>
  /\ UNCHANGED <<configVars, running, current_phase, days_elapsed, insights,
                 relationships, conversation_history, generation, clock,
                 standupVars, lpc, busVars, project_analysis, standup_records,
                 peer_sent, message_errors>>

\* redis_client.publish('society_channel', ...) returns or raises
WorkerPublished(m, ok) ==
  /\ wpc[m] = "publish"
  /\ IF ok
     THEN /\ Publish(WorkUpdate(m))
          /\ AppendAndSleep(m)
     ELSE /\ OnWorkerError(m)
          /\ UNCHANGED <<busVars, tasks_completed>>
  /\ UNCHANGED <<configVars, running, current_phase, days_elapsed, insights,
                 relationships, conversation_history, generation, clock,
                 standupVars, lpc, storeVars, peer_sent, message_errors>>

\* asyncio.sleep(work_delay) returns: generation += 1, back to the loop test
WorkerWake(m, fs) ==
  /\ wpc[m] = "sleep"
  /\ generation' = [generation EXCEPT ![m] = @ + 1]
  /\ WorkerEnter(m, fs)
  /\ UNCHANGED <<configVars, running, current_phase, days_elapsed,
                 tasks_completed, insights, relationships,
                 conversation_history, standupVars, lpc, busVars, storeVars,
                 peer_sent, message_errors>>

\* asyncio.sleep(5) of the except branch returns: back to the loop test
WorkerRecovered(m, fs) ==
  /\ wpc[m] = "recover"
  /\ WorkerEnter(m, fs)
  /\ UNCHANGED <<agentVars, standupVars, lpc, busVars, storeVars, peer_sent,
                 message_errors>>

\* ------------------------------------------------------- standup scheduler
LastThree_Whole(s) == s

\* self.insights[-3:] if self.insights else []
LastThree(s) ==
  IF s = <<>> THEN <<>>
  ELSE SubSeq(s, IF Len(s) > 3 THEN Len(s) - 2 ELSE 1, Len(s))

\* daily_standup(): the report dict
BuildReport(m) ==
  [mind |-> m, completed |-> Len(tasks_completed[m]),
   status |-> current_phase[m], insights |-> LastThree(insights[m])]

StandupWake_CountsGeneration(m) ==
  /\ spc[m] = "sleeping"
  /\ running[m] => days_elapsed[m] < MaxDays
  /\ days_elapsed' = [days_elapsed EXCEPT ![m] = @ + 1]
  /\ generation' = [generation EXCEPT ![m] = @ + 1]
  /\ report' = [report EXCEPT ![m] = BuildReport(m)]
  /\ spc' = [spc EXCEPT ![m] = "publishing"]
  /\ UNCHANGED <<configVars, running, current_phase, tasks_completed,
                 insights, relationships, conversation_history, workerVars,
                 lpc, busVars, storeVars, peer_sent, message_errors>>

\* asyncio.sleep(86400) returns: days_elapsed += 1, then daily_standup() up
\* to its publish
StandupWake(m) ==
  /\ spc[m] = "sleeping"
  /\ running[m] => days_elapsed[m] < MaxDays
  /\ days_elapsed' = [days_elapsed EXCEPT ![m] = @ + 1]
  /\ report' = [report EXCEPT ![m] = BuildReport(m)]
  /\ spc' = [spc EXCEPT ![m] = "publishing"]
  /\ UNCHANGED <<configVars, running, current_phase, tasks_completed,
                 insights, relationships, conversation_history, generation,
                 workerVars, lpc, busVars, storeVars, peer_sent,
                 message_errors>>

\* daily_standup(): what it writes to the store for the report (nothing)
PersistReport(m) == UNCHANGED storeVars

\* redis_client.publish('daily_standup', ...) returns or raises; nothing
\* catches the raise, which ends the scheduler task
StandupPublished(m, ok) ==
  /\ spc[m] = "publishing"
  /\ IF ok
     THEN /\ Publish(Msg("daily_standup", m, "standup", None, report[m],
                         days_elapsed[m]))
          /\ spc' = [spc EXCEPT ![m] = IF StandupLoopTest(m) THEN "sleeping"
                                        ELSE "done"]
     ELSE /\ spc' = [spc EXCEPT ![m] = "crashed"]
          /\ UNCHANGED busVars
  /\ report' = [report EXCEPT ![m] = NoReport]
  /\ PersistReport(m)
  /\ UNCHANGED <<agentVars, workerVars, lpc, peer_sent,
                 message_errors>>

\* --------------------------------------------------------------- listener
NewRelationship == [interactions |-> 0, collaboration_score |-> 50]

Touch_CountFromOne(rel, other) ==
  LET r == IF other \in DOMAIN rel THEN rel
           ELSE (other :> [NewRelationship EXCEPT !.interactions = 1]) @@ rel
  IN [r EXCEPT ![other].interactions = @ + 1]

Touch_Recreate(rel, other) ==
  LET r == (other :> NewRelationship) @@ rel
  IN [r EXCEPT ![other].interactions = @ + 1]

\* process_other_thought(): the relationship update
Touch(rel, other) ==
  LET r == IF other \in DOMAIN rel THEN rel
           ELSE (other :> NewRelationship) @@ rel
  IN [r EXCEPT ![other].interactions = @ + 1]

IsSelf_NoFilter(m, msg) == FALSE

\* `if data.get('mind') == self.name: continue`
IsSelf(m, msg) == msg.mind = m

NoOpChannels_Empty == {}

NoOpChannels_WithArchitecture ==
  {"daily_standup", "code_review", "design_review", "architecture_review"}

\* The channels whose handler is `pass`
NoOpChannels == {"daily_standup", "code_review", "design_review"}

HandleMessage_NoMemory(m, msg) ==
  LET same == [rel |-> relationships[m], hist |-> conversation_history[m],
               errs |-> message_errors[m]]
  IN IF msg.type # "message" THEN same
     ELSE IF ~msg.decodable THEN [same EXCEPT !.errs = @ + 1]
     ELSE IF IsSelf(m, msg) THEN same
     ELSE IF msg.channel \in NoOpChannels THEN same
     ELSE [same EXCEPT !.rel = Touch(relationships[m], msg.mind)]

HandleMessage_Undecoded(m, msg) ==
  LET same == [rel |-> relationships[m], hist |-> conversation_history[m],
               errs |-> message_errors[m]]
  IN IF msg.type # "message" THEN same
     ELSE IF IsSelf(m, msg) THEN same
     ELSE IF msg.channel \in NoOpChannels THEN same
     ELSE [same EXCEPT !.rel = Touch(relationships[m], msg.mind),
                       !.hist = Append(conversation_history[m], msg)]

\* The body of the `async for`: what one message does to the relationship
\* map and the conversation history, and whether its except branch logs it
HandleMessage(m, msg) ==
  LET same == [rel |-> relationships[m], hist |-> conversation_history[m],
               errs |-> message_errors[m]]
  IN IF msg.type # "message" THEN same
     ELSE IF ~msg.decodable THEN [same EXCEPT !.errs = @ + 1]
     ELSE IF IsSelf(m, msg) THEN same
     ELSE IF msg.channel \in NoOpChannels THEN same
     ELSE [same EXCEPT !.rel = Touch(relationships[m], msg.mind),
                       !.hist = Append(conversation_history[m], msg)]

\* pubsub.listen() yields the next buffered message
ListenerReceive(m) ==
  /\ lpc[m] = "listening"
  /\ inbox[m] # <<>>
  /\ LET r == HandleMessage(m, Head(inbox[m]))
     IN /\ relationships' = [relationships EXCEPT ![m] = r.rel]
        /\ conversation_history' = [conversation_history EXCEPT ![m] = r.hist]
        /\ message_errors' = [message_errors EXCEPT ![m] = r.errs]
  /\ inbox' = [inbox EXCEPT ![m] = Tail(@)]
  /\ UNCHANGED <<configVars, running, current_phase, days_elapsed,
                 tasks_completed, insights, generation, workerVars,
                 standupVars, lpc, published, storeVars, peer_sent>>

\* pubsub.listen() raises (the connection dropped): the raise is outside the
\* try of the loop body and ends the listener task
ListenerDisconnected(m) ==
  /\ lpc[m] = "listening"
  /\ lpc' = [lpc EXCEPT ![m] = "crashed"]
  /\ UNCHANGED <<agentVars, workerVars, standupVars, busVars, storeVars,
                 peer_sent,
                 message_errors>>

\* ---------------------------------------------------------------- process
\* run() returns when autonomous_loop returns; asyncio.run(main()) then
\* cancels the tasks still pending and closes the loop
ProcessExit(m) ==
  /\ wpc[m] = "done"
  /\ wpc' = [wpc EXCEPT ![m] = "exited"]
  /\ lpc' = [lpc EXCEPT ![m] = IF @ = "listening" THEN "cancelled" ELSE @]
  /\ spc' = [spc EXCEPT ![m] = IF @ \in {"sleeping", "publishing"}
                                THEN "cancelled" ELSE @]
  /\ report' = [report EXCEPT ![m] = NoReport]
  /\ UNCHANGED <<agentVars, work, sleep_for, clock, busVars, storeVars,
                 peer_sent,
                 message_errors>>

\* ------------------------------------------------------------ environment
\* The fields below have no writer in the module; the design gives them to
\* the surrounding mission control.

\* running = False requests shutdown
RequestShutdown(m) ==
  /\ wpc[m] # "exited"
  /\ running[m]
  /\ running' = [running EXCEPT ![m] = FALSE]
  /\ UNCHANGED <<configVars, current_phase, days_elapsed, tasks_completed,
                 insights, relationships, conversation_history, generation,
                 workerVars, standupVars, lpc, busVars, storeVars, peer_sent,
                 message_errors>>

\* The phase is advanced from outside, forward in the order of the phases
AdvancePhase(m, p) ==
  /\ wpc[m] # "exited"
  /\ PhaseRank(p) > PhaseRank(current_phase[m])
  /\ current_phase' = [current_phase EXCEPT ![m] = p]
  /\ UNCHANGED <<configVars, running, days_elapsed, tasks_completed, insights,
                 relationships, conversation_history, generation, workerVars,
                 standupVars, lpc, busVars, storeVars, peer_sent,
                 message_errors>>

\* An insight is logged (the k-th insight is the number k)
AddInsight(m) ==
  /\ wpc[m] # "exited"
  /\ Len(insights[m]) < MaxInsights
  /\ insights' = [insights EXCEPT ![m] = Append(@, Len(@) + 1)]
  /\ UNCHANGED <<configVars, running, current_phase, days_elapsed,
                 tasks_completed, relationships, conversation_history,
                 generation, workerVars, standupVars, lpc, busVars, storeVars,
                 peer_sent, message_errors>>

\* A process outside the model publishes on a subscribed channel: a dict
\* whose 'mind' is a name or is absent, or data that does not decode
PeerPublish(ch, sender, ok) ==
  /\ peer_sent < MaxPeerMsgs
  /\ ok \/ sender = None
  /\ peer_sent' = peer_sent + 1
  /\ Deliver([Msg(ch, sender, "other", None, NoReport, 0)
                EXCEPT !.decodable = ok])
  /\ UNCHANGED <<agentVars, workerVars, standupVars, lpc, published, storeVars,
                 message_errors>>

\* --------------------------------------------------------- specifications
\* The worker of mind m in phase analysis, with every outcome of the scan,
\* the store and the bus
AnalysisWorkerStep(m) ==
  \/ Connect(m)
  \/ \E fs \in FsOutcomes : StartLoop(m, fs)
  \/ \E ok \in BOOLEAN : WorkerAnalysisStored(m, ok)
  \/ \E ok \in BOOLEAN : WorkerStored(m, ok)
  \/ \E ok \in BOOLEAN : WorkerPublished(m, ok)
  \/ \E fs \in FsOutcomes : WorkerWake(m, fs)
  \/ \E fs \in FsOutcomes : WorkerRecovered(m, fs)

\* The worker of mind m in any phase
WorkerProgress(m) ==
  \/ AnalysisWorkerStep(m)
  \/ \E r \in InferenceOutcomes : WorkerInferenceReturns(m, r)

WorkerStep(m) ==
  \/ WorkerProgress(m)
  \/ ProcessExit(m)

\* The standup scheduler of mind m
StandupStep(m) ==
  \/ StandupWake(m)
  \/ \E ok \in BOOLEAN : StandupPublished(m, ok)

\* A worker whose collaborators, store and bus do not fail
SteadyWorkerStep(m) ==
  \/ Connect(m)
  \/ StartLoop(m, "unmounted")
  \/ WorkerStored(m, TRUE)
  \/ WorkerPublished(m, TRUE)
  \/ WorkerWake(m, "unmounted")

\* Traffic from processes outside the model
PeerTraffic ==
  \E ch \in Channels, sender \in Minds \cup {None}, ok \in BOOLEAN :
    PeerPublish(ch, sender, ok)

\* One mind: its worker and its listener (which receives the mind's own
\* messages back), mission control outside
Next ==
  \/ WorkerStep("A")
  \/ ListenerReceive("A")
  \/ RequestShutdown("A")
  \/ \E p \in AllPhases : AdvancePhase("A", p)

Spec == Init /\ [][Next]_vars

\* One mind: its worker and its standup scheduler, shutdown from outside
StandupNext ==
  \/ AnalysisWorkerStep("A")
  \/ ProcessExit("A")
  \/ StandupStep("A")
  \/ RequestShutdown("A")

StandupSpec == Init /\ [][StandupNext]_vars

\* One mind: the scheduler reporting while the worker completes tasks and
\* the insight log and the phase change
ReportNext ==
  \/ SteadyWorkerStep("A")
  \/ WorkerInferenceReturns("A", "ok200")
  \/ StandupWake("A")
  \/ StandupPublished("A", TRUE)
  \/ \E p \in AllPhases : AdvancePhase("A", p)
  \/ AddInsight("A")

ReportSpec == Init /\ [][ReportNext]_vars

\* One mind: its listener, fed by its own worker and by outside processes
ListenNext ==
  \/ SteadyWorkerStep("A")
  \/ ListenerReceive("A")
  \/ PeerTraffic

ListenSpec == Init /\ [][ListenNext]_vars

\* A worker on an unmounted project root, whose store and bus may fail
UnmountedWorkerStep(m) ==
  \/ Connect(m)
  \/ StartLoop(m, "unmounted")
  \/ \E ok \in BOOLEAN : WorkerStored(m, ok)
  \/ \E ok \in BOOLEAN : WorkerPublished(m, ok)
  \/ WorkerWake(m, "unmounted")
  \/ WorkerRecovered(m, "unmounted")

\* One mind under shutdown.  The event loop runs every activity that is
\* ready, and every await of the model returns: the steps of the worker, of
\* the scheduler and of the listener are weakly fair.  Nothing obliges the
\* controller to request shutdown, the bus to drop the connection or (here)
\* the process to be reaped.
LiveNext ==
  \/ UnmountedWorkerStep("A")
  \/ ProcessExit("A")
  \/ StandupStep("A")
  \/ ListenerReceive("A")
  \/ ListenerDisconnected("A")
  \/ RequestShutdown("A")

LiveSpec ==
  /\ Init
  /\ [][LiveNext]_vars
  /\ WF_vars(UnmountedWorkerStep("A"))
  /\ WF_vars(StandupStep("A"))
  /\ WF_vars(ListenerReceive("A"))

\* Two minds on the same bus and store; mission control moves A on to
\* core systems, B does one steady cycle of analysis
TwoNext ==
  \/ WorkerProgress("A")
  \/ Connect("B")
  \/ StartLoop("B", "unmounted")
  \/ WorkerStored("B", TRUE)
  \/ WorkerPublished("B", TRUE)
  \/ \E m \in Minds : ListenerReceive(m)
  \/ AdvancePhase("A", "core_systems")

TwoSpec == Init /\ [][TwoNext]_vars

\* One mind with all three activities (worker, listener and standup
\* scheduler) and their failures, while mission control requests shutdown
\* or moves the mission on to its last phase
FrameNext ==
  \/ LiveNext
  \/ AdvancePhase("A", "polish")

FrameSpec == Init /\ [][FrameNext]_vars

\* Every choice of SPECIALIZATION for the two processes
ProfileInit == \E tags \in [Minds -> Tags] : Construct(tags)

\* Two minds constructed with any tags; their steady workers pace their
\* cycles by the productivity of their personality
ProfileNext ==
  \/ SteadyWorkerStep("A")
  \/ SteadyWorkerStep("B")

ProfileSpec == ProfileInit /\ [][ProfileNext]_vars

\* ------------------------------------------------------------ properties
\* The listener of m takes the message at the head of its buffer
Receives(m) ==
  /\ lpc[m] = "listening"
  /\ inbox[m] # <<>>
  /\ inbox'[m] = Tail(inbox[m])

Range(f) == {f[x] : x \in DOMAIN f}

\* C1: a message whose `mind` is the receiver's own name changes neither the
\* relationship map nor the conversation history, on whatever channel it
\* arrives; the own name is never a key of the relationship map and never
\* the `mind` of an entry of the conversation history.
C1_SelfMessagesFiltered ==
  /\ [](\A m \in Minds :
          /\ m \notin DOMAIN relationships[m]
          /\ \A t \in Range(conversation_history[m]) : t.mind # m)
  /\ [][\A m \in Minds :
          (Receives(m) /\ Head(inbox[m]).mind = m) =>
             /\ relationships'[m] = relationships[m]
             /\ conversation_history'[m] = conversation_history[m]]_vars

\* A's own work_update came back and was consumed, next to a peer's message
\* that was recorded
C1_Witness ==
  /\ \E i \in DOMAIN published : published[i].mind = "A"
  /\ inbox["A"] = <<>>
  /\ "B" \in DOMAIN relationships["A"]
  /\ "A" \notin DOMAIN relationships["A"]

\* The awaits inside work_on_mission, and those of a whole work cycle
InDispatch == {"ainsert", "infer", "insert"}
InCycle == InDispatch \cup {"publish"}

\* The records of m in the store's work-record collection, in insert order
Persisted(m) ==
  LET Mine(r) == r.mind = m IN SelectSeq(development_work, Mine)

\* C2: work_on_mission never raises, and a failing collaborator gives a
\* record whose payload is null: no await inside work_on_mission ends in the
\* loop's except branch, and the inference call always leaves the payload
\* null unless it succeeded.
C2_DispatchNeverRaises ==
  [][\A m \in Minds :
       /\ wpc[m] \in InDispatch => wpc'[m] # "recover"
       /\ (wpc[m] = "infer" /\ wpc'[m] # "infer") =>
             work'[m].output \in {None, "proposed"}]_vars

\* C3: a failure inside a work cycle never ends the worker loop: every await
\* of a cycle returns into the cycle, into the pacing sleep or into the
\* recovery sleep, which is shorter than any pacing sleep; the recovery
\* sleep is followed by a new cycle when `running` is true; the loop ends
\* only from its loop test, with `running` false.
C3_FailuresNeverStopWorker ==
  [][\A m \in Minds :
       /\ wpc[m] \in InCycle => wpc'[m] \in InCycle \cup {"sleep", "recover"}
       /\ (wpc[m] # "recover" /\ wpc'[m] = "recover") =>
             /\ wpc[m] \in InCycle
             /\ sleep_for'[m] = RecoverySleep * Scale
             /\ \A t \in DOMAIN Specializations :
                  sleep_for'[m] < WorkDelay(InitializePersonality(t)["productivity"])
       /\ (wpc[m] = "recover" /\ wpc'[m] # "recover") =>
             IF running[m]
             THEN wpc'[m] \in InCycle /\ clock'[m] = clock[m] + 1
             ELSE wpc'[m] = "done"
       /\ (wpc[m] # "done" /\ wpc'[m] = "done") =>
             ~running[m] /\ wpc[m] \in {"connected", "sleep", "recover"}
       /\ wpc'[m] # "crashed"]_vars

\* The first cycle failed, and a second cycle is under way
C3_Witness ==
  /\ running["A"]
  /\ clock["A"] = 2
  /\ tasks_completed["A"] = <<>>
  /\ wpc["A"] \in InCycle

\* C7: whenever the worker is between two work cycles, the task list and
\* the mind's persisted work records are the same sequence.
C7_TasksMatchStore ==
  \A m \in Minds :
    wpc[m] \in {"sleep", "recover", "done", "exited"} =>
      tasks_completed[m] = Persisted(m)

\* The standup reports of m that the bus accepted
StandupsPublished(m) ==
  {i \in DOMAIN published :
     published[i].channel = "daily_standup" /\ published[i].mind = m}

\* The standup reports of m in the store
StandupsPersisted(m) ==
  {i \in DOMAIN standup_records : standup_records[i].mind = m}

\* The scheduler is not in the middle of a report
StandupAtRest(m) == spc[m] # "publishing"

\* C5 as stated: once `running` is false, no work cycle is started, no
\* report is built and `days_elapsed` is not incremented any more.
C5_NothingAfterShutdown ==
  [][\A m \in Minds :
       ~running[m] =>
          /\ clock'[m] = clock[m]
          /\ days_elapsed'[m] = days_elapsed[m]
          /\ report'[m] \in {report[m], NoReport}]_vars

\* C5 amended: once `running` is false, the worker starts no work cycle,
\* and the scheduler finishes the iteration whose sleep was in progress (one
\* increment of `days_elapsed`, one report built and published) and never
\* starts another sleep: `days_elapsed` changes only by the wake-up from a
\* sleep that began before the flag was cleared.
C5_AtMostOneStandupAfterShutdown ==
  [][\A m \in Minds :
       ~running[m] =>
          /\ clock'[m] = clock[m]
          /\ wpc'[m] \in InCycle => wpc[m] \in InCycle
          /\ spc'[m] = "sleeping" => spc[m] = "sleeping"
          /\ days_elapsed'[m] # days_elapsed[m] =>
                /\ spc[m] = "sleeping"
                /\ spc'[m] = "publishing"
                /\ days_elapsed'[m] = days_elapsed[m] + 1
          /\ report'[m] \notin {report[m], NoReport} => spc[m] = "sleeping"]_vars

\* Shutdown was requested, the scheduler published the report of the sleep
\* that was in progress and ended, and so did the worker
C5_Witness ==
  /\ ~running["A"]
  /\ spc["A"] = "done"
  /\ wpc["A"] = "done"
  /\ days_elapsed["A"] = 1
  /\ StandupsPublished("A") # {}

\* C8: every published report is also in the store's standup records, and
\* when the scheduler is not in the middle of a report the number of reports
\* emitted equals `days_elapsed`.
C8_StandupPersistedAndCounted ==
  \A m \in Minds :
    /\ Cardinality(StandupsPublished(m)) <= Cardinality(StandupsPersisted(m))
    /\ StandupAtRest(m) => Cardinality(StandupsPublished(m)) = days_elapsed[m]

\* C9: the report built by a wake-up of the scheduler is the snapshot of the
\* state the wake-up starts from: the length of the task list, the phase,
\* and the last min(3, n) of the n insights; a published report is the one
\* that was built.
C9_ReportIsSnapshot ==
  [][\A m \in Minds :
       /\ (spc[m] = "sleeping" /\ spc'[m] = "publishing") =>
            LET r == report'[m]
                n == Len(insights[m])
                k == IF n < 3 THEN n ELSE 3
            IN /\ r.mind = m
               /\ r.completed = Len(tasks_completed[m])
               /\ r.status = current_phase[m]
               /\ Len(r.insights) = k
               /\ \A i \in 1..k : r.insights[i] = insights[m][n - k + i]
       /\ (spc[m] = "publishing" /\ spc'[m] \in {"sleeping", "done"}) =>
            /\ Len(inbox'[m]) = Len(inbox[m]) + 1
            /\ inbox'[m][Len(inbox'[m])].report = report[m]
            /\ inbox'[m][Len(inbox'[m])].channel = "daily_standup"]_vars

\* A report built in phase polish after a completed task, from an insight
\* log longer than three
C9_Witness ==
  /\ spc["A"] = "publishing"
  /\ report["A"].completed >= 1
  /\ report["A"].status = "polish"
  /\ Len(insights["A"]) = 4
  /\ report["A"].insights = <<2, 3, 4>>

\* C4: once `running` is false, the worker loop and the standup scheduler
\* both eventually end.
C4_ShutdownEndsLoops ==
  \A m \in Minds :
    (~running[m]) ~> (/\ wpc[m] \in {"done", "exited"}
                      /\ spc[m] \in {"done", "crashed", "cancelled"})

\* Shutdown was requested after a completed cycle and a report, and both
\* loops ended by their own loop test
C4_Witness ==
  /\ ~running["A"]
  /\ wpc["A"] = "done"
  /\ spc["A"] = "done"
  /\ generation["A"] >= 1
  /\ days_elapsed["A"] >= 1

\* C6: once shutdown is requested the listener loop eventually ends, and not
\* by being cancelled when the process exits.
C6_ListenerEndsOnShutdown ==
  \A m \in Minds :
    (~running[m]) ~> (lpc[m] \notin {"notstarted", "listening", "cancelled"})

\* The work_update header of a work record
UpdateOf(w) ==
  [channel |-> "society_channel", mind |-> w.mind, kind |-> "work_update",
   timestamp |-> w.timestamp]

Count(seq, x) == Cardinality({i \in DOMAIN seq : seq[i] = x})

\* C10: a record of A never reaches the store or the bus twice; every
\* completed work cycle of A in core_systems whose collaborator returned
\* "proposed" has its record in the store exactly once and exactly one
\* work_update of A for it on society_channel; when B takes the first such
\* message, B's relationship map gains the entry A with interaction count 1
\* and keeps its other entries, and A's map is unchanged; A taking its own
\* message leaves A's map unchanged.
C10_WorkUpdateReachesPeer ==
  /\ [](\A i \in DOMAIN development_work :
          /\ Count(development_work, development_work[i]) = 1
          /\ Count(published, UpdateOf(development_work[i])) <= 1)
  /\ [](\A i \in DOMAIN tasks_completed["A"] :
          LET w == tasks_completed["A"][i]
          IN w.output = "proposed" =>
               /\ w.phase = "core_systems" /\ w.mind = "A"
               /\ Count(development_work, w) = 1
               /\ Count(published, UpdateOf(w)) = 1)
  /\ [][(/\ Receives("B")
         /\ Head(inbox["B"]).mind = "A"
         /\ Head(inbox["B"]).kind = "work_update"
         /\ Head(inbox["B"]).details = "proposed"
         /\ "A" \notin DOMAIN relationships["B"]) =>
           /\ DOMAIN relationships'["B"] = DOMAIN relationships["B"] \cup {"A"}
           /\ relationships'["B"]["A"].interactions = 1
           /\ \A p \in DOMAIN relationships["B"] :
                relationships'["B"][p] = relationships["B"][p]
           /\ relationships'["A"] = relationships["A"]]_vars
  /\ [][(Receives("A") /\ Head(inbox["A"]).mind = "A") =>
           relationships'["A"] = relationships["A"]]_vars

\* A completed a proposed cycle, took its own message back, and B recorded it
C10_Witness ==
  /\ \E i \in DOMAIN tasks_completed["A"] :
       tasks_completed["A"][i].output = "proposed"
  /\ inbox["A"] = <<>>
  /\ "A" \in DOMAIN relationships["B"]
  /\ relationships["B"]["A"].interactions = 1
  /\ conversation_history["B"][1].details = "proposed"
  /\ "A" \notin DOMAIN relationships["A"]

\* The entry of peer p in a relationship map, or the entry before creation
EntryOf(rel, p) == IF p \in DOMAIN rel THEN rel[p] ELSE NewRelationship

\* C11: the relationship update creates the entry of an unseen peer once:
\* applied twice to a reachable map that lacks peer p, the map gains the one
\* key p, the count of p reads 1 after the first call and 2 after the second,
\* the collaboration score of p reads 0.5 after each, and every other entry
\* is as before; and whenever the listener takes a message, no key of the
\* map disappears, at most the sender's entry changes, and that entry keeps
\* its score and counts one more than before (one, when it was absent).
C11_TouchCreatesOnce ==
  /\ [](\A m \in Minds : \A p \in (Minds \cup {None}) \ DOMAIN relationships[m] :
          LET rel == relationships[m]
              one == Touch(rel, p)
              two == Touch(one, p)
          IN /\ DOMAIN one = DOMAIN rel \cup {p}
             /\ DOMAIN two = DOMAIN one
             /\ one[p] = [interactions |-> 1, collaboration_score |-> 50]
             /\ two[p] = [interactions |-> 2, collaboration_score |-> 50]
             /\ \A q \in DOMAIN rel : one[q] = rel[q] /\ two[q] = rel[q])
  /\ [][\A m \in Minds :
          /\ DOMAIN relationships[m] \subseteq DOMAIN relationships'[m]
          /\ Receives(m) =>
               LET s == Head(inbox[m]).mind
               IN /\ DOMAIN relationships'[m] \subseteq
                       DOMAIN relationships[m] \cup {s}
                  /\ \A q \in DOMAIN relationships[m] \ {s} :
                       relationships'[m][q] = relationships[m][q]
                  /\ s \in DOMAIN relationships'[m] =>
                       \/ relationships'[m][s] = EntryOf(relationships[m], s)
                       \/ relationships'[m][s] =
                            [EntryOf(relationships[m], s)
                               EXCEPT !.interactions = @ + 1]
                  /\ s \in DOMAIN relationships'[m] \ DOMAIN relationships[m] =>
                       relationships'[m][s] =
                         [interactions |-> 1, collaboration_score |-> 50]]_vars

\* The listener of A took two messages of the unseen peer B
C11_Witness ==
  /\ "B" \in DOMAIN relationships["A"]
  /\ relationships["A"]["B"] = [interactions |-> 2, collaboration_score |-> 50]
  /\ Len(conversation_history["A"]) = 2

\* The interaction count m keeps for peer p (0 before the entry exists)
InteractionCount(rel, p) == EntryOf(rel, p).interactions

\* A decoded message naming sender p, who is not the receiver m
WellFormedFrom(m, msg, p) ==
  /\ msg.type = "message"
  /\ msg.decodable
  /\ msg.mind = p
  /\ p # m

\* The channels routed to process_other_thought
GenericChannels == {"society_channel", "architecture_review"}

C13_StandupSelfHealing ==
  \A m \in Minds :
    running[m] => spc[m] \in {"notstarted", "sleeping", "publishing"}

\* The traits of a profile whose value is not the base value
Overridden(profile) == {t \in Traits : profile[t] # BaseProfile[t]}

\* C14: the personality a mind holds has the seven traits, each in [0, 1];
\* for a tag of the table the traits that differ from the base profile are
\* exactly the traits the table lists for the tag, each with the table's
\* value; for any other tag the personality is the base profile.
C14_PersonalityProfile ==
  \A m \in Minds :
    LET tag == specialization[m]
        profile == personality[m]
    IN /\ DOMAIN profile = Traits
       /\ Cardinality(Traits) = 7
       /\ \A t \in Traits : 0 <= profile[t] /\ profile[t] <= Scale
       /\ tag \in DOMAIN Specializations =>
            /\ Overridden(profile) = DOMAIN Specializations[tag]
            /\ \A t \in DOMAIN Specializations[tag] :
                 profile[t] = Specializations[tag][t]
       /\ tag \notin DOMAIN Specializations => profile = BaseProfile

\* A is an explorer and B runs with the default tag, and both have worked
C14_Witness ==
  /\ specialization["A"] = "explorer"
  /\ personality["A"]["caution"] = 30
  /\ personality["A"]["logic"] = 70
  /\ specialization["B"] = "generalist"
  /\ personality["B"] = BaseProfile
  /\ Len(tasks_completed["A"]) = 1
  /\ Len(tasks_completed["B"]) = 1

\* C15: the sleep after a completed cycle is base * (2 - productivity) with
\* base = 30 s, and lies in [base, 2 * base]; over productivity in [0, 1]
\* the delay falls with every hundredth productivity rises, from 2 * base
\* at 0 to base at 1.
C15_PacingDelay ==
  /\ \A m \in Minds :
       wpc[m] = "sleep" =>
         /\ sleep_for[m] =
              BaseDelay * (2 * Scale - personality[m]["productivity"])
         /\ BaseDelay * Scale <= sleep_for[m]
         /\ sleep_for[m] <= 2 * BaseDelay * Scale
  /\ \A p \in 0..Scale :
       /\ BaseDelay * Scale <= WorkDelay(p)
       /\ WorkDelay(p) <= 2 * BaseDelay * Scale
       /\ p < Scale => WorkDelay(p) > WorkDelay(p + 1)
  /\ WorkDelay(0) = 2 * BaseDelay * Scale
  /\ WorkDelay(Scale) = BaseDelay * Scale

\* The engineer A sleeps 31.5 s and B, with the base profile, 39 s
C15_Witness ==
  /\ specialization["A"] = "engineer"
  /\ wpc["A"] = "sleep" /\ sleep_for["A"] = 3150
  /\ specialization["B"] = "generalist"
  /\ wpc["B"] = "sleep" /\ sleep_for["B"] = 3900

\* C16: a work cycle persists its record, then publishes, then appends.
\* Every work_update on the bus is that of a stored record with a payload;
\* every record of the task list is stored, and its work_update is on the
\* bus exactly when it has a payload; a record of a phase no branch handles
\* has no payload.  The step that stores a record comes from the insert,
\* leaves the bus alone, and goes on to the publish when the record has a
\* payload and otherwise appends the record and starts the pacing sleep (not
\* the recovery); the step that publishes comes from the publish, finds the
\* record stored and appends it.
C16_PersistPublishAppend ==
  /\ [](\A i \in DOMAIN published :
          published[i].kind = "work_update" =>
            \E j \in DOMAIN development_work :
              /\ UpdateOf(development_work[j]) = published[i]
              /\ development_work[j].output # None)
  /\ [](\A m \in Minds : \A i \in DOMAIN tasks_completed[m] :
          LET w == tasks_completed[m][i]
          IN /\ w \in Range(development_work)
             /\ (w.output # None) <=> (UpdateOf(w) \in Range(published))
             /\ w.phase \notin Phases => w.output = None)
  /\ [][\A m \in Minds :
          /\ Len(development_work') > Len(development_work) /\ wpc[m] = "insert"
             /\ wpc'[m] # "insert" =>
               /\ development_work' = Append(development_work, work[m])
               /\ published' = published
               /\ IF work[m].output # None
                  THEN /\ wpc'[m] = "publish"
                       /\ tasks_completed'[m] = tasks_completed[m]
                  ELSE /\ wpc'[m] = "sleep"
                       /\ tasks_completed'[m] =
                            Append(tasks_completed[m], work[m])
          /\ Len(published') > Len(published) /\ wpc[m] = "publish"
             /\ wpc'[m] # "publish" =>
               /\ published' = Append(published, UpdateOf(work[m]))
               /\ work[m] \in Range(development_work)
               /\ work[m].output # None
               /\ tasks_completed'[m] = Append(tasks_completed[m], work[m])
               /\ wpc'[m] = "sleep"]_vars

\* A completed a cycle with a payload and then one in a phase no branch
\* handles: two records stored and appended, one work_update published
C16_Witness ==
  /\ Len(tasks_completed["A"]) = 2
  /\ tasks_completed["A"][1].output # None
  /\ tasks_completed["A"][2].output = None
  /\ tasks_completed["A"][2].phase = "unmapped"
  /\ development_work = tasks_completed["A"]
  /\ Len(published) = 1
  /\ wpc["A"] = "sleep"

\* C17: when the listener takes a decoded message of another mind, a message
\* on daily_standup, code_review or design_review changes neither the
\* relationship map nor the conversation history; a message on any other
\* subscribed channel (society_channel, architecture_review) gives the
\* sender an entry if it had none, raises the sender's interaction count by
\* exactly one, leaves the other entries alone and is appended to the
\* conversation history.  Taking a message publishes nothing.
C17_ListenerRouting ==
  [][\A m \in Minds :
       Receives(m) =>
         /\ published' = published
         /\ LET msg == Head(inbox[m])
                s == msg.mind
            IN WellFormedFrom(m, msg, s) =>
                 IF msg.channel \in
                      {"daily_standup", "code_review", "design_review"}
                 THEN /\ relationships'[m] = relationships[m]
                      /\ conversation_history'[m] = conversation_history[m]
                 ELSE /\ msg.channel \in
                           {"society_channel", "architecture_review"}
                      /\ DOMAIN relationships'[m] =
                           DOMAIN relationships[m] \cup {s}
                      /\ InteractionCount(relationships'[m], s) =
                           InteractionCount(relationships[m], s) + 1
                      /\ \A q \in DOMAIN relationships[m] \ {s} :
                           relationships'[m][q] = relationships[m][q]
                      /\ conversation_history'[m] =
                           Append(conversation_history[m], msg)]_vars

\* A took a message of B on architecture_review, and one more message that
\* left no trace
C17_Witness ==
  /\ peer_sent = 2
  /\ inbox["A"] = <<>>
  /\ message_errors["A"] = 0
  /\ Len(conversation_history["A"]) = 1
  /\ conversation_history["A"][1].channel = "architecture_review"
  /\ conversation_history["A"][1].mind = "B"
  /\ DOMAIN relationships["A"] = {"B"}
  /\ relationships["A"]["B"].interactions = 1

\* C18: a message whose data does not decode is logged and dropped: taking
\* it leaves the relationship map and the conversation history as they are
\* and the listener listening; a listener that has dropped messages is
\* still listening, and handles the next decoded message of a peer on a
\* generic channel as always (count plus one, message appended).
C18_MalformedDropped ==
  /\ [][\A m \in Minds :
          (/\ Receives(m)
           /\ Head(inbox[m]).type = "message"
           /\ ~Head(inbox[m]).decodable) =>
             /\ relationships'[m] = relationships[m]
             /\ conversation_history'[m] = conversation_history[m]
             /\ message_errors'[m] = message_errors[m] + 1
             /\ lpc'[m] = "listening"]_vars
  /\ [](\A m \in Minds : message_errors[m] > 0 => lpc[m] = "listening")
  /\ [][\A m \in Minds :
          (/\ message_errors[m] > 0
           /\ Receives(m)
           /\ WellFormedFrom(m, Head(inbox[m]), Head(inbox[m]).mind)
           /\ Head(inbox[m]).channel \in GenericChannels) =>
             /\ InteractionCount(relationships'[m], Head(inbox[m]).mind) =
                  InteractionCount(relationships[m], Head(inbox[m]).mind) + 1
             /\ conversation_history'[m] =
                  Append(conversation_history[m], Head(inbox[m]))]_vars

\* A dropped one undecodable message and recorded one message of B
C18_Witness ==
  /\ message_errors["A"] = 1
  /\ lpc["A"] = "listening"
  /\ inbox["A"] = <<>>
  /\ Len(conversation_history["A"]) = 1
  /\ conversation_history["A"][1].mind = "B"
  /\ relationships["A"]["B"].interactions = 1

\* A step of the listener of m: it takes a message, or its connection drops
ListenerActs(m) ==
  \/ Receives(m)
  \/ lpc[m] = "listening" /\ lpc'[m] = "crashed"

\* A step of the worker of m (not the exit of the process)
WorkerActs(m) == wpc'[m] # wpc[m] /\ wpc'[m] # "exited"

\* A step of the standup scheduler of m, once the worker has created it
SchedulerActs(m) ==
  /\ spc[m] \in {"sleeping", "publishing"}
  /\ spc'[m] # spc[m]
  /\ spc'[m] # "cancelled"

C20_GenerationCountsCycles ==
  /\ [](\A m \in Minds :
          LET d == Len(tasks_completed[m]) - generation[m]
          IN /\ generation[m] >= 0
             /\ d \in {0, 1}
             /\ d = 1 <=> wpc[m] = "sleep")
  /\ [][\A m \in Minds :
          /\ generation'[m] >= generation[m]
          /\ generation'[m] # generation[m] =>
               /\ wpc[m] = "sleep"
               /\ generation'[m] = generation[m] + 1
               /\ tasks_completed'[m] = tasks_completed[m]
          /\ (wpc[m] = "recover" \/ wpc'[m] = "recover") =>
               /\ tasks_completed'[m] = tasks_completed[m]
               /\ generation'[m] = generation[m]]_vars

\* The first cycle of A failed and the second was appended: A is in the
\* pacing sleep with one task and generation 0
C20_Witness ==
  /\ wpc["A"] = "sleep"
  /\ clock["A"] = 2
  /\ Len(tasks_completed["A"]) = 1
  /\ tasks_completed["A"][1].timestamp = 2
  /\ generation["A"] = 0

\* The sum of the interaction counts of a relationship map
RECURSIVE TotalInteractions(_)
TotalInteractions(rel) ==
  IF DOMAIN rel = {} THEN 0
  ELSE LET p == CHOOSE q \in DOMAIN rel : TRUE
       IN rel[p].interactions +
          TotalInteractions([q \in DOMAIN rel \ {p} |-> rel[q]])

\* The entries of a conversation history whose sender is p
HeardFrom(hist, p) == {i \in DOMAIN hist : hist[i].mind = p}

\* C21: the relationship map and the conversation history stay in step: the
\* history is as long as the sum of the interaction counts, every entry of
\* the map has a count of at least 1 (the number of history entries of that
\* sender) and the collaboration score 0.5, every sender in the history has
\* an entry, and a step either leaves the history as it is or appends one
\* message at its end.
C21_HistoryInStep ==
  /\ [](\A m \in Minds :
          /\ Len(conversation_history[m]) = TotalInteractions(relationships[m])
          /\ \A p \in DOMAIN relationships[m] :
               /\ relationships[m][p].interactions >= 1
               /\ relationships[m][p].interactions =
                    Cardinality(HeardFrom(conversation_history[m], p))
               /\ relationships[m][p].collaboration_score = 50
          /\ \A i \in DOMAIN conversation_history[m] :
               conversation_history[m][i].mind \in DOMAIN relationships[m])
  /\ [][\A m \in Minds :
          \/ conversation_history'[m] = conversation_history[m]
          \/ /\ Len(conversation_history'[m]) =
                  Len(conversation_history[m]) + 1
             /\ SubSeq(conversation_history'[m], 1,
                       Len(conversation_history[m])) =
                  conversation_history[m]
             /\ Receives(m)
             /\ conversation_history'[m][Len(conversation_history'[m])] =
                  Head(inbox[m])]_vars

\* A recorded one message of B and then one message without a sender name:
\* two entries with count 1, a history of length 2
C21_Witness ==
  /\ Len(conversation_history["A"]) = 2
  /\ conversation_history["A"][1].mind = "B"
  /\ conversation_history["A"][2].mind = None
  /\ DOMAIN relationships["A"] = {"B", None}
  /\ relationships["A"]["B"].interactions = 1
  /\ relationships["A"][None].interactions = 1

====
